---- MODULE Spec2Model ----
(***************************************************************************)
(* Model of the DICOM hierarchy index and of the slice rendering of        *)
(* dicom-ai-viewer:                                                        *)
(*   backend/services/dicom_service.py  (DicomService)                     *)
(*   backend/routers/dicom.py           (upload_dicom_files and the reads) *)
(* and of its interpretation service:                                      *)
(*   backend/services/ai_service.py     (AIService)                        *)
(*   backend/routers/interpret.py       (get_series_interpretation)        *)
(*                                                                         *)
(* The specifications share the state: Spec (two concurrent upload         *)
(* requests), SpecFields (uploads that differ in descriptive tags and path *)
(* depth), SpecRead (uploads interleaved with the read operations),        *)
(* SpecRender (one upload, then get_slice_image and get_slice_metadata on  *)
(* it, with the backing file possibly removed), SpecFrame (uploads,        *)
(* removals and all six read operations), SpecService (the operations of   *)
(* AIService on lists of slice images) and SpecInterpret (uploads and      *)
(* interpretation requests for the uploaded series).                       *)
(*                                                                         *)
(* Identifiers are strings, as in the program.  A relative path is the     *)
(* sequence of segments that relative_path.replace("\\","/").split("/")    *)
(* yields; the empty sequence stands for an absent (None or "") path.      *)
(* A decoded header ds is a record whose domain is the set of tags the     *)
(* file carries, so getattr(ds, tag, default) is a lookup with a default.  *)
(* slice_location is a float in the program and an integer here.           *)
(*                                                                         *)
(* Exceptions of _index_dicom_file's try block that are modelled: dcmread  *)
(* raising on the file (readable = FALSE) and the KeyError of the sort key *)
(* on a record without slice_location.  A request runs on the asyncio      *)
(* event loop: it can be suspended only in `await file.read()`, so the     *)
(* whole of save_uploaded_file is one step.                                *)
(***************************************************************************)
EXTENDS Integers, Sequences, FiniteSets, TLC

VARIABLES studies, series, slices, disk, nextUuid, pc, results, last, overlaps, call,
          client, interpretation_cache, created

vars == <<studies, series, slices, disk, nextUuid, pc, results, last, overlaps, call,
          client, interpretation_cache, created>>

(* the state of AIService *)
aiVars == <<client, interpretation_cache, created>>

(* Number of save_uploaded_file calls explored. *)
MaxUploads == 2

None == "<None>"

(* The concurrent upload requests served by the event loop. *)
Requests == {"r1", "r2"}

----------------------------------------------------------------------------
(* Inputs *)

EmptyDs == [t \in {} |-> None]

IdentityTags ==
    {EmptyDs,
     [StudyInstanceUID |-> "1.2.840.1"],
     [StudyInstanceUID |-> "1.2.840.1", SeriesInstanceUID |-> "1.2.840.1.7"]}

PositionTags == {EmptyDs, [InstanceNumber |-> 5, SliceLocation |-> 2]}

FullHeader ==
    [StudyInstanceUID |-> "1.2.840.1", SeriesInstanceUID |-> "1.2.840.1.7",
     InstanceNumber |-> 1, SliceLocation |-> 2,
     PatientName |-> "DOE^JANE", PatientID |-> "P001", StudyDate |-> "20240101",
     StudyDescription |-> "Knee MRI", Modality |-> "CT", SeriesNumber |-> 3,
     SeriesDescription |-> "T1 SAG", BodyPartExamined |-> "KNEE",
     Rows |-> 256, Columns |-> 128]

(* The headers pydicom.dcmread can return for the uploaded files. *)
Headers == {a @@ b : a \in IdentityTags, b \in PositionTags} \cup {FullHeader}

Filenames == {"img1.dcm", "img2.dcm"}

RelativePaths ==
    {<<>>,
     <<"PatientA", "Brain", "img1.dcm">>,
     <<"PatientB", "Brain", "img2.dcm">>}

(* The browser sends, with each file of a folder upload, the relative path *)
(* that ends in the file's name; a file sent without a path is img1.dcm.   *)
Named(fn, rp) == IF rp = <<>> THEN fn = "img1.dcm" ELSE fn = rp[Len(rp)]

(* An uploaded file: readable = FALSE when pydicom.dcmread raises on it. *)
Files ==
    {f \in [filename : Filenames, relative_path : RelativePaths,
            readable : {TRUE}, ds : Headers]
            \cup
            [filename : Filenames, relative_path : RelativePaths,
             readable : {FALSE}, ds : {EmptyDs}] :
        Named(f.filename, f.relative_path)}

NoFile == [filename |-> "", relative_path |-> <<>>, readable |-> FALSE, ds |-> EmptyDs]

----------------------------------------------------------------------------
(* Python helpers *)

(* getattr(ds, tag, default) and dict.get(key, default) *)
Get(d, key, default) == IF key \in DOMAIN d THEN d[key] ELSE default

(* a or b, on strings *)
Or(a, b) == IF a \notin {"", None} THEN a ELSE b

(* x in list *)
InList(x, l) == \E i \in 1..Len(l) : l[i] = x

(* d[key] = value on a dict *)
Put(d, key, value) == [k \in DOMAIN d \cup {key} |-> IF k = key THEN value ELSE d[k]]

(* an identifier generator that hands out the same value every time *)
UuidReused(n) == "uuid1"

(* uuid.uuid4(): the n-th identifier generated, distinct from all earlier ones *)
Uuid(n) == "uuid" \o ToString(n)

(* "/".join(parts) *)
RECURSIVE Join(_)
Join(parts) ==
    IF Len(parts) = 0 THEN ""
    ELSE IF Len(parts) = 1 THEN parts[1]
    ELSE parts[1] \o "/" \o Join(Tail(parts))

----------------------------------------------------------------------------
(* DicomService._parse_folder_structure *)

ParseFolderStructureFirstFolder(parts) ==
    IF Len(parts) >= 2 THEN
        [patient_folder |-> parts[1],
         body_location  |-> parts[1],
         subfolder      |-> parts[1]]
    ELSE
        [patient_folder |-> "Unknown",
         body_location  |-> "Unknown",
         subfolder      |-> ""]

ParseFolderStructure(parts) ==
    IF Len(parts) >= 3 THEN
        [patient_folder |-> parts[1],
         body_location  |-> parts[2],
         subfolder      |-> IF Len(parts) > 3
                            THEN Join(SubSeq(parts, 2, Len(parts) - 1))
                            ELSE parts[2]]
    ELSE IF Len(parts) = 2 THEN
        [patient_folder |-> parts[1],
         body_location  |-> parts[1],
         subfolder      |-> parts[1]]
    ELSE
        [patient_folder |-> "Unknown",
         body_location  |-> "Unknown",
         subfolder      |-> ""]

(* relative_path or filename, split into segments *)
PathParts(file) ==
    IF file.relative_path = <<>> THEN <<file.filename>> ELSE file.relative_path

(* self.upload_dir / f"{slice_id}.dcm" *)
FilePath(slice_id) == "uploads/" \o slice_id \o ".dcm"

----------------------------------------------------------------------------
(* DicomService._index_dicom_file: identity resolution *)

StudyUid(ds, folder_info, slice_id) ==
    LET dicom_study_uid == Get(ds, "StudyInstanceUID", None)
    IN  IF dicom_study_uid \notin {None, ""} THEN dicom_study_uid
        ELSE "study_" \o Get(folder_info, "patient_folder", slice_id)

SeriesUid(ds, folder_info, slice_id) ==
    LET dicom_series_uid == Get(ds, "SeriesInstanceUID", None)
    IN  IF dicom_series_uid \notin {None, ""} THEN dicom_series_uid
        ELSE "series_" \o Get(folder_info, "subfolder", slice_id)

FallbackStudyUid(folder_info, slice_id) ==
    "study_" \o Get(folder_info, "patient_folder", slice_id)

FallbackSeriesUid(folder_info, slice_id) ==
    "series_" \o Get(folder_info, "subfolder", slice_id)

----------------------------------------------------------------------------
(* DicomService._index_dicom_file: records *)

PatientName(ds, folder_info) ==
    Or(Get(ds, "PatientName", ""), Get(folder_info, "patient_folder", "Unknown"))

NewStudy(ds, folder_info, study_uid) ==
    [id                |-> study_uid,
     patient_name      |-> PatientName(ds, folder_info),
     patient_id        |-> Get(ds, "PatientID", Get(folder_info, "patient_folder", "Unknown")),
     study_date        |-> Get(ds, "StudyDate", "Unknown"),
     study_description |-> Or(Get(ds, "StudyDescription", ""),
                              "Patient: " \o PatientName(ds, folder_info)),
     modality          |-> Get(ds, "Modality", "MR"),
     series_ids        |-> <<>>]

NewSeries(ds, folder_info, study_uid, series_uid) ==
    LET body_location == Get(folder_info, "body_location", "")
    IN  [id                 |-> series_uid,
         study_id           |-> study_uid,
         series_number      |-> Get(ds, "SeriesNumber", 1),
         series_description |-> Or(Get(ds, "SeriesDescription", ""),
                                   Or(body_location, "Series")),
         body_part          |-> Or(Get(ds, "BodyPartExamined", body_location),
                                   body_location),
         slice_ids          |-> <<>>]

(* instance_number when the header omits it, and on the except path *)
DefaultInstanceNumber(se, series_uid) == Len(se[series_uid].slice_ids) + 1

NewSlice(ds, se, slice_id, filename, study_uid, series_uid) ==
    LET slice_location == Get(ds, "SliceLocation", 0)
    IN  [id              |-> slice_id,
         series_id       |-> series_uid,
         study_id        |-> study_uid,
         instance_number |-> IF "InstanceNumber" \in DOMAIN ds
                             THEN ds.InstanceNumber
                             ELSE DefaultInstanceNumber(se, series_uid),
         slice_location  |-> IF slice_location # 0 THEN slice_location ELSE 0,
         filename        |-> filename,
         file_path       |-> FilePath(slice_id),
         rows            |-> Get(ds, "Rows", 0),
         columns         |-> Get(ds, "Columns", 0)]

FallbackStudy(folder_info, study_uid, series_uid) ==
    [id                |-> study_uid,
     patient_name      |-> Get(folder_info, "patient_folder", "Unknown"),
     study_description |-> "Uploaded Study",
     series_ids        |-> <<series_uid>>]

FallbackSeries(folder_info, study_uid, series_uid) ==
    [id                 |-> series_uid,
     study_id           |-> study_uid,
     series_description |-> Get(folder_info, "body_location", "Uploaded Series"),
     slice_ids          |-> <<>>]

FallbackSlice(se, slice_id, filename, study_uid, series_uid, error) ==
    [id              |-> slice_id,
     series_id       |-> series_uid,
     study_id        |-> study_uid,
     instance_number |-> DefaultInstanceNumber(se, series_uid),
     filename        |-> filename,
     file_path       |-> FilePath(slice_id),
     error           |-> error]

----------------------------------------------------------------------------
(* list.sort(key = (instance_number, slice_location)): stable, ascending *)

SortKey(sl, sid) == <<sl[sid]["instance_number"], sl[sid]["slice_location"]>>

KeyLess(a, b) == a[1] < b[1] \/ (a[1] = b[1] /\ a[2] < b[2])

(* the key function raises KeyError on a record without one of the fields *)
SortRaises(sl, l) ==
    \E i \in 1..Len(l) :
        \/ l[i] \notin DOMAIN sl
        \/ "instance_number" \notin DOMAIN sl[l[i]]
        \/ "slice_location" \notin DOMAIN sl[l[i]]

InsertByKey(sl, sorted, x) ==
    LET n == Cardinality({i \in 1..Len(sorted) :
                              ~KeyLess(SortKey(sl, x), SortKey(sl, sorted[i]))})
    IN  SubSeq(sorted, 1, n) \o <<x>> \o SubSeq(sorted, n + 1, Len(sorted))

RECURSIVE SortSliceIds(_, _)
SortSliceIds(sl, l) ==
    IF Len(l) = 0 THEN <<>>
    ELSE InsertByKey(sl, SortSliceIds(sl, SubSeq(l, 1, Len(l) - 1)), l[Len(l)])

----------------------------------------------------------------------------
(* DicomService._index_dicom_file: the try block.  The index idx is the    *)
(* record of the three mappings.  The result carries the index as the      *)
(* block leaves it, and whether (and with what message) it raised.         *)

(* self.studies[study_uid]["series_ids"].append(series_uid) if not present *)
AppendSeriesId(st, study_uid, series_uid) ==
    IF ~InList(series_uid, st[study_uid].series_ids)
    THEN [st EXCEPT ![study_uid].series_ids = Append(@, series_uid)]
    ELSE st

(* CreateStudy without the `not in` guard: every slice rewrites the record *)
CreateStudyOverwrite(st, study_uid, record) == Put(st, study_uid, record)

(* `if study_uid not in self.studies` *)
CreateStudy(st, study_uid, record) ==
    IF study_uid \notin DOMAIN st THEN Put(st, study_uid, record) ELSE st

(* `if series_uid not in self.series` *)
CreateSeries(se, series_uid, record) ==
    IF series_uid \notin DOMAIN se THEN Put(se, series_uid, record) ELSE se

(* study and series creation of the try block *)
TryResolve(idx, ds, folder_info, study_uid, series_uid) ==
    LET st1 == CreateStudy(idx.studies, study_uid, NewStudy(ds, folder_info, study_uid))
    IN  [studies |-> IF series_uid \notin DOMAIN idx.series
                     THEN AppendSeriesId(st1, study_uid, series_uid)
                     ELSE st1,
         series  |-> CreateSeries(idx.series, series_uid,
                                  NewSeries(ds, folder_info, study_uid, series_uid)),
         slices  |-> idx.slices]

(* the append and re-sort of the try block, on the index with the new     *)
(* slice record in place                                                   *)
AppendAndSort(idx, slice_id, series_uid, appended) ==
    IF InList(slice_id, idx.series[series_uid].slice_ids) THEN
        [idx |-> idx, raised |-> FALSE, error |-> None]
    ELSE IF SortRaises(idx.slices, appended) THEN
        [idx |-> [idx EXCEPT !.series[series_uid].slice_ids = appended],
         raised |-> TRUE, error |-> "'slice_location'"]
    ELSE
        [idx |-> [idx EXCEPT !.series[series_uid].slice_ids =
                                  SortSliceIds(idx.slices, appended)],
         raised |-> FALSE, error |-> None]

(* slice record creation and insertion of the try block *)
TryInsert(idx, ds, slice_id, filename, study_uid, series_uid) ==
    AppendAndSort(
        [idx EXCEPT !.slices = Put(@, slice_id,
             NewSlice(ds, idx.series, slice_id, filename, study_uid, series_uid))],
        slice_id, series_uid, Append(idx.series[series_uid].slice_ids, slice_id))

TryIndexAs(idx, slice_id, file, folder_info, study_uid, series_uid) ==
    TryInsert(TryResolve(idx, file.ds, folder_info, study_uid, series_uid),
              file.ds, slice_id, file.filename, study_uid, series_uid)

TryIndex(idx, slice_id, file, folder_info) ==
    IF ~file.readable THEN
        [idx |-> idx, raised |-> TRUE, error |-> "dcmread failed"]
    ELSE
        TryIndexAs(idx, slice_id, file, folder_info,
                   StudyUid(file.ds, folder_info, slice_id),
                   SeriesUid(file.ds, folder_info, slice_id))

(* DicomService._index_dicom_file: the except block, entered from the      *)
(* index as the try block left it.  raised: a KeyError leaves the handler. *)

(* study and series creation of the except block *)
ExceptResolve(idx, folder_info, study_uid, series_uid) ==
    LET st1 == CreateStudy(idx.studies, study_uid,
                           FallbackStudy(folder_info, study_uid, series_uid))
    IN  IF series_uid \notin DOMAIN idx.series /\ "series_ids" \notin DOMAIN st1[study_uid]
        THEN [idx |-> [idx EXCEPT !.studies = st1], raised |-> TRUE]
        ELSE [idx |-> [studies |-> IF series_uid \notin DOMAIN idx.series
                                   THEN AppendSeriesId(st1, study_uid, series_uid)
                                   ELSE st1,
                       series  |-> CreateSeries(idx.series, series_uid,
                                       FallbackSeries(folder_info, study_uid, series_uid)),
                       slices  |-> idx.slices],
              raised |-> FALSE]

(* ExceptInsert without the final append to the series' slice_ids *)
ExceptInsertNoAppend(r, slice_id, filename, study_uid, series_uid, error) ==
    IF r.raised \/ "slice_ids" \notin DOMAIN r.idx.series[series_uid] THEN
        [idx |-> r.idx, raised |-> TRUE]
    ELSE
        [idx |-> [studies |-> r.idx.studies,
                  series  |-> r.idx.series,
                  slices  |-> Put(r.idx.slices, slice_id,
                                  FallbackSlice(r.idx.series, slice_id, filename,
                                                study_uid, series_uid, error))],
         raised |-> FALSE]

(* slice record creation and append of the except block *)
ExceptInsert(r, slice_id, filename, study_uid, series_uid, error) ==
    IF r.raised \/ "slice_ids" \notin DOMAIN r.idx.series[series_uid] THEN
        [idx |-> r.idx, raised |-> TRUE]
    ELSE
        [idx |-> [studies |-> r.idx.studies,
                  series  |-> IF ~InList(slice_id, r.idx.series[series_uid].slice_ids)
                              THEN [r.idx.series EXCEPT ![series_uid].slice_ids =
                                                            Append(@, slice_id)]
                              ELSE r.idx.series,
                  slices  |-> Put(r.idx.slices, slice_id,
                                  FallbackSlice(r.idx.series, slice_id, filename,
                                                study_uid, series_uid, error))],
         raised |-> FALSE]

ExceptIndexAs(idx, slice_id, file, folder_info, error, study_uid, series_uid) ==
    ExceptInsert(ExceptResolve(idx, folder_info, study_uid, series_uid),
                 slice_id, file.filename, study_uid, series_uid, error)

ExceptIndex(idx, slice_id, file, folder_info, error) ==
    ExceptIndexAs(idx, slice_id, file, folder_info, error,
                  FallbackStudyUid(folder_info, slice_id),
                  FallbackSeriesUid(folder_info, slice_id))

(* the except clause of _index_dicom_file, applied to the outcome t of the try block *)
OnException(t, slice_id, file, folder_info) ==
    IF t.raised
    THEN ExceptIndex(t.idx, slice_id, file, folder_info, t.error) @@ [branch |-> "except"]
    ELSE [idx |-> t.idx, raised |-> FALSE, branch |-> "try"]

IndexDicomFile(idx, slice_id, file, folder_info) ==
    OnException(TryIndex(idx, slice_id, file, folder_info), slice_id, file, folder_info)

(* save_uploaded_file returns slice_id unless _index_dicom_file raised *)
SaveResult(r, slice_id) ==
    [idx      |-> r.idx,
     slice_id |-> slice_id,
     raised   |-> r.raised,
     branch   |-> r.branch,
     returned |-> IF r.raised THEN None ELSE slice_id]

(* DicomService.save_uploaded_file, as the n-th call of the process *)
SaveUploadedFile(idx, n, file) ==
    SaveResult(IndexDicomFile(idx, Uuid(n), file, ParseFolderStructure(PathParts(file))),
               Uuid(n))

----------------------------------------------------------------------------
(* State *)

(* studies, series, slices: the three mappings of DicomService.            *)
(* nextUuid: how many identifiers uuid4 has handed out.                    *)
(* pc, results: per request, the position of upload_dicom_files and its    *)
(*   local results list (kept as the response body once it has returned).  *)
(* disk: the upload directory, from file path to the bytes written there   *)
(*   (the uploaded file).                                                  *)
(* last: the most recent save_uploaded_file call (its file and outcome).   *)
(* call: the read operation served by the latest step and its response;    *)
(*   NoCall when the latest step was not a read.                           *)
(* overlaps[r]: the requests whose latest run was in flight at some time   *)
(*   during the latest run of r.                                           *)
(* client, interpretation_cache: the fields of AIService; client is None   *)
(*   when no API key was configured.                                       *)
(* created: how many times client.messages.create has been called.         *)

Index == [studies |-> studies, series |-> series, slices |-> slices]

EmptyDict == [k \in {} |-> None]

NoCall == [op |-> "none"]

(* DicomService.__init__ and the idle requests *)
InitDicom ==
    /\ studies = EmptyDict
    /\ series = EmptyDict
    /\ slices = EmptyDict
    /\ disk = EmptyDict
    /\ call = NoCall
    /\ nextUuid = 0
    /\ pc = [r \in Requests |-> "idle"]
    /\ results = [r \in Requests |-> <<>>]
    /\ last = [slice_id |-> None, file |-> NoFile, branch |-> "none",
               raised |-> FALSE, returned |-> None]
    /\ overlaps = [r \in Requests |-> {}]

(* AIService.__init__ with the given API key (argument or environment) *)
InitAIService(api_key) ==
    /\ client = IF api_key \notin {None, ""} THEN "Anthropic" ELSE None
    /\ interpretation_cache = EmptyDict
    /\ created = 0

Init == InitDicom /\ InitAIService("sk-key")

(* requests suspended in `await file.read()` *)
InFlight == {r \in Requests : pc[r] = "await"}

(* upload_dicom_files: the handler starts, enters the loop over its files  *)
(* and suspends in the first `await file.read()`.                          *)
BeginUpload(r) ==
    /\ pc[r] = "idle"
    /\ nextUuid + Cardinality(InFlight) < MaxUploads
    /\ pc' = [pc EXCEPT ![r] = "await"]
    /\ results' = [results EXCEPT ![r] = <<>>]
    /\ overlaps' = [q \in Requests |->
                        IF q = r THEN InFlight
                        ELSE IF q \in InFlight THEN overlaps[q] \cup {r}
                        ELSE overlaps[q] \ {r}]
    /\ call' = NoCall
    /\ UNCHANGED <<studies, series, slices, disk, nextUuid, last>>
    /\ UNCHANGED aiVars

(* upload_dicom_files: the read completes and the handler runs, without    *)
(* yielding to the event loop, save_uploaded_file and the bookkeeping of   *)
(* the result, then either suspends in the read of its next file or        *)
(* returns its response.  The file comes from the given set.              *)
UploadFrom(r, files) ==
    /\ pc[r] = "await"
    /\ \E file \in files, more \in BOOLEAN :
        \E s \in {SaveUploadedFile(Index, nextUuid + 1, file)} :
        \E slice_info \in {Get(s.idx.slices, s.slice_id, EmptyDict)} :
        LET entry == IF s.raised
                     THEN [success |-> FALSE, filename |-> file.filename,
                           error |-> "KeyError"]
                     ELSE [success |-> TRUE, filename |-> file.filename,
                           relative_path |-> PathParts(file),
                           slice_id |-> s.returned,
                           study_id |-> Get(slice_info, "study_id", None),
                           series_id |-> Get(slice_info, "series_id", None)]
        IN  /\ more => nextUuid + 1 + Cardinality(InFlight) <= MaxUploads
            /\ studies' = s.idx.studies
            /\ series' = s.idx.series
            /\ slices' = s.idx.slices
            /\ disk' = Put(disk, FilePath(s.slice_id), file)
            /\ nextUuid' = nextUuid + 1
            /\ results' = [results EXCEPT ![r] = Append(@, entry)]
            /\ pc' = [pc EXCEPT ![r] = IF more THEN "await" ELSE "idle"]
            /\ last' = [slice_id |-> s.slice_id, file |-> file, branch |-> s.branch,
                        raised |-> s.raised, returned |-> s.returned]
            /\ call' = NoCall
            /\ UNCHANGED overlaps
            /\ UNCHANGED aiVars

UploadFile(r) == UploadFrom(r, Files)

Next == \E r \in Requests : BeginUpload(r) \/ UploadFile(r)

Spec == Init /\ [][Next]_vars

----------------------------------------------------------------------------
(* Vocabulary of the properties *)

(* a save_uploaded_file call has run in this step *)
Saved == nextUuid' = nextUuid + 1

(* path-derived identity of a file *)
FolderInfo(file) == ParseFolderStructure(PathParts(file))

(* the file carries a non-empty value for the tag *)
Embedded(file, tag) == file.readable /\ Get(file.ds, tag, "") # ""

(* the ordering key of a slice record; a record without slice_location     *)
(* is given the default location                                           *)
OrderKey(rec) == <<rec.instance_number, Get(rec, "slice_location", 0)>>

NonDecreasing(l) ==
    \A i \in 1..(Len(l) - 1) :
        ~KeyLess(OrderKey(slices[l[i + 1]]), OrderKey(slices[l[i]]))

Occurrences(x, l) == Cardinality({i \in 1..Len(l) : l[i] = x})

(* a Study or Series record without its membership list *)
Identity(rec) == [f \in DOMAIN rec \ {"series_ids", "slice_ids"} |-> rec[f]]

----------------------------------------------------------------------------
(* C1: in every reachable state, every series' slice_ids list is           *)
(* non-decreasing under (instance_number, slice_location) of the records   *)
(* it references.                                                          *)
C1_SliceIdsSorted ==
    \A sid \in DOMAIN series :
        /\ \A i \in 1..Len(series[sid].slice_ids) : series[sid].slice_ids[i] \in DOMAIN slices
        /\ NonDecreasing(series[sid].slice_ids)

(* C2: in every reachable state, each slice's study_id is the study_id of  *)
(* the series its series_id names.                                         *)
C2_SliceStudyIsSeriesStudy ==
    \A s \in DOMAIN slices :
        /\ slices[s].series_id \in DOMAIN series
        /\ series[slices[s].series_id].study_id = slices[s].study_id

(* C3: in every reachable state, each series identifier is listed in the   *)
(* series_ids of exactly one study, the one its own study_id names.        *)
C3_SeriesInExactlyOneStudy ==
    \A sid \in DOMAIN series :
        /\ {st \in DOMAIN studies : InList(sid, studies[st].series_ids)}
               = {series[sid].study_id}
        /\ Occurrences(sid, studies[series[sid].study_id].series_ids) = 1

(* C4: when the series a successfully decoded file resolves to already     *)
(* holds a slice whose header decode failed, the file is still recorded    *)
(* with rows, columns and slice_location and without an error attribute.   *)
C4_GoodFileAfterBadFile ==
    LET file       == last.file
        series_uid == SeriesUid(file.ds, FolderInfo(file), last.slice_id)
    IN  (/\ last.slice_id # None
         /\ file.readable
         /\ series_uid \in DOMAIN series
         /\ \E x \in DOMAIN slices :
               /\ x # last.slice_id
               /\ InList(x, series[series_uid].slice_ids)
               /\ Get(slices[x], "error", None) = "dcmread failed")
        => /\ last.slice_id \in DOMAIN slices
           /\ {"rows", "columns", "slice_location"} \subseteq DOMAIN slices[last.slice_id]
           /\ "error" \notin DOMAIN slices[last.slice_id]
           /\ slices[last.slice_id].series_id = series_uid

(* C5: a save_uploaded_file call on a file whose header decode throws      *)
(* returns the new slice id without raising, stores a slice record with an *)
(* error string under 'study_' + patient_folder and 'series_' + subfolder, *)
(* creates no study or series under any other identifier, and adds the     *)
(* slice id to that series' slice_ids.                                     *)
C5_DecodeFailureDegrades ==
    [][(Saved /\ ~last'.file.readable) =>
        LET id         == last'.slice_id
            info       == FolderInfo(last'.file)
            study_uid  == "study_" \o info.patient_folder
            series_uid == "series_" \o info.subfolder
        IN  /\ ~last'.raised
            /\ last'.returned = id
            /\ id \notin DOMAIN slices
            /\ DOMAIN slices' = DOMAIN slices \cup {id}
            /\ "error" \in DOMAIN slices'[id]
            /\ slices'[id].error # ""
            /\ slices'[id].study_id = study_uid
            /\ slices'[id].series_id = series_uid
            /\ DOMAIN studies' = DOMAIN studies \cup {study_uid}
            /\ DOMAIN series' = DOMAIN series \cup {series_uid}
            /\ Occurrences(id, series'[series_uid].slice_ids) = 1
            /\ \E r \in Requests :
                  /\ Len(results'[r]) = Len(results[r]) + 1
                  /\ results'[r][Len(results'[r])].success
                  /\ results'[r][Len(results'[r])].slice_id = id
    ]_vars

(* C5 witness: an undecodable file has been saved on the except path and   *)
(* its identifier returned, into a series that already held a slice.       *)
C5_Witness ==
    /\ last.slice_id # None
    /\ ~last.file.readable
    /\ last.branch = "except"
    /\ last.returned = last.slice_id
    /\ Len(series[slices[last.slice_id].series_id].slice_ids) >= 2

(* C6: a file without embedded series (study) identifier whose subfolder   *)
(* (patient_folder) is empty gets the fresh slice identifier as its series *)
(* (study) identifier, so it never shares its series with another upload.  *)
C6_EmptyFolderFallsBackToSliceId ==
    LET file == last.file
        info == FolderInfo(file)
        rec  == slices[last.slice_id]
    IN  /\ (/\ last.slice_id # None
            /\ ~Embedded(file, "SeriesInstanceUID")
            /\ info.subfolder = "")
           => /\ rec.series_id \in {last.slice_id, "series_" \o last.slice_id}
              /\ series[rec.series_id].slice_ids = <<last.slice_id>>
        /\ (/\ last.slice_id # None
            /\ ~Embedded(file, "StudyInstanceUID")
            /\ info.patient_folder = "")
           => rec.study_id \in {last.slice_id, "study_" \o last.slice_id}

(* C7: a slice recorded without a header-supplied instance number (header  *)
(* omits it, or fallback path) gets the number of slice ids its series     *)
(* held immediately before the call, plus one.                             *)
C7_DefaultInstanceNumber ==
    [][Saved =>
        LET id  == last'.slice_id
            rec == slices'[id]
            before == IF rec.series_id \in DOMAIN series
                      THEN Len(series[rec.series_id].slice_ids)
                      ELSE 0
        IN  (last'.branch = "except" \/ "InstanceNumber" \notin DOMAIN last'.file.ds)
            => rec.instance_number = before + 1
    ]_vars

(* C8: after two insertions into the same series by requests whose runs    *)
(* overlapped, both slice ids are in slice_ids exactly once and the list   *)
(* is sorted.                                                              *)
C8_ConcurrentInsertions ==
    \A r1 \in Requests : \A r2 \in overlaps[r1] \ {r1} :
        \A i \in 1..Len(results[r1]) : \A j \in 1..Len(results[r2]) :
            LET e1 == results[r1][i]
                e2 == results[r2][j]
            IN  (e1.success /\ e2.success /\ e1.series_id = e2.series_id)
                => /\ Occurrences(e1.slice_id, series[e1.series_id].slice_ids) = 1
                   /\ Occurrences(e2.slice_id, series[e1.series_id].slice_ids) = 1
                   /\ NonDecreasing(series[e1.series_id].slice_ids)

(* C9: every successfully decoded file carrying a non-empty embedded study *)
(* identifier is given that value as its study_id, and the one record      *)
(* under it is the one created by the first such file.                     *)
C9_EmbeddedStudyIdentity ==
    [][(Saved /\ Embedded(last'.file, "StudyInstanceUID")) =>
        LET file == last'.file
            uid  == file.ds.StudyInstanceUID
        IN  /\ slices'[last'.slice_id].study_id = uid
            /\ uid \in DOMAIN studies'
            /\ studies'[uid].id = uid
            /\ Identity(studies'[uid]) =
                  IF uid \in DOMAIN studies
                  THEN Identity(studies[uid])
                  ELSE Identity(NewStudy(file.ds, FolderInfo(file), uid))
    ]_vars

(* C10: a save_uploaded_file call changes no field of an existing Study or *)
(* Series record other than its membership list.                           *)
C10_FirstWriterWins ==
    [][/\ \A k \in DOMAIN studies :
            k \in DOMAIN studies' /\ Identity(studies'[k]) = Identity(studies[k])
       /\ \A k \in DOMAIN series :
            k \in DOMAIN series' /\ Identity(series'[k]) = Identity(series[k])
    ]_vars

(* C10 witness: a decoded file has been added to a study and a series that *)
(* an earlier file created, and its own header and path would have given   *)
(* both records other descriptive values.                                  *)
C10_Witness ==
    /\ last.slice_id # None
    /\ last.branch = "try"
    /\ LET file       == last.file
           rec        == slices[last.slice_id]
       IN  /\ Len(series[rec.series_id].slice_ids) >= 2
           /\ Identity(studies[rec.study_id])
                 # Identity(NewStudy(file.ds, FolderInfo(file), rec.study_id))
           /\ Identity(series[rec.series_id])
                 # Identity(NewSeries(file.ds, FolderInfo(file), rec.study_id, rec.series_id))

----------------------------------------------------------------------------
(* Field population and path-derived identity: uploads served one after    *)
(* the other, of files that differ in their descriptive tags and in the    *)
(* depth of their relative path.                                           *)

DescriptiveTags == {"PatientName", "PatientID", "SeriesDescription", "BodyPartExamined"}

TagValue ==
    [PatientName |-> "DOE^JANE", PatientID |-> "P001",
     SeriesDescription |-> "T1 SAG", BodyPartExamined |-> "KNEE"]

(* no descriptive tag, one tag (empty or not), all tags (empty or not) *)
DescriptiveHeaders ==
    {EmptyDs}
    \cup {[t \in {tag} |-> v] : tag \in DescriptiveTags, v \in {""}}
    \cup {[t \in {tag} |-> TagValue[tag]] : tag \in DescriptiveTags}
    \cup {[t \in DescriptiveTags |-> ""], [t \in DescriptiveTags |-> TagValue[t]]}

BrainPath == <<"PatientA", "Brain", "img1.dcm">>

DeepPaths ==
    {<<"img1.dcm">>,
     <<"PatientA", "img1.dcm">>,
     <<"PatientA", "Brain", "T1", "img1.dcm">>,
     <<"PatientA", "Brain", "T1", "SAG", "img1.dcm">>}

FieldFiles ==
    [filename : {"img1.dcm"}, relative_path : {<<>>, BrainPath},
     readable : {TRUE}, ds : DescriptiveHeaders]
    \cup
    [filename : {"img1.dcm"}, relative_path : DeepPaths,
     readable : {TRUE}, ds : {EmptyDs}]
    \cup
    [filename : {"img1.dcm"}, relative_path : {BrainPath},
     readable : {FALSE}, ds : {EmptyDs}]

NextFields == BeginUpload("r1") \/ UploadFrom("r1", FieldFiles)

SpecFields == Init /\ [][NextFields]_vars

(* the study / series that the slice saved by the latest call belongs to *)
LastStudy == studies[slices[last.slice_id].study_id]

LastSeries == series[slices[last.slice_id].series_id]

(* the latest step saved a file and created the study / series it went to *)
CreatesStudy ==
    /\ Saved
    /\ slices'[last'.slice_id].study_id \notin DOMAIN studies

CreatesSeries ==
    /\ Saved
    /\ slices'[last'.slice_id].series_id \notin DOMAIN series

(* the preference order: the header value when present and non-empty,      *)
(* otherwise the hint, otherwise the fixed default                         *)
Preferred(file, tag, hint, default) ==
    IF tag \in DOMAIN file.ds /\ file.ds[tag] # "" THEN file.ds[tag]
    ELSE IF hint # "" THEN hint
    ELSE default

(* C11: when a successfully decoded file creates its study or its series,  *)
(* patient_name, patient_id, series_description and body_part each take    *)
(* the header value when it is present and non-empty, otherwise the path   *)
(* hint (patient_folder, body_location), otherwise the fixed default; an   *)
(* empty header value never wins over the path hint.                       *)
C11_FieldPopulation ==
    [][ /\ (CreatesStudy /\ last'.file.readable) =>
            LET file == last'.file
                hint == FolderInfo(file).patient_folder
                st == studies'[slices'[last'.slice_id].study_id]
            IN  /\ st.patient_name = Preferred(file, "PatientName", hint, "Unknown")
                /\ st.patient_id = Preferred(file, "PatientID", hint, "Unknown")
        /\ (CreatesSeries /\ last'.file.readable) =>
            LET file == last'.file
                hint == FolderInfo(file).body_location
                se == series'[slices'[last'.slice_id].series_id]
            IN  /\ se.series_description =
                        Preferred(file, "SeriesDescription", hint, "Series")
                /\ se.body_part = Preferred(file, "BodyPartExamined", hint, "Series")
      ]_vars

(* the three path-derived fields of a record *)
PathIdentity(pf, bl, sf) == [patient_folder |-> pf, body_location |-> bl, subfolder |-> sf]

(* C12 (first part): the path-derived identity of every saved file is, by  *)
(* the number of segments of its path: 3 or more, the first segment, the   *)
(* second and the second (exactly 3) or the segments between the first     *)
(* and the last joined by "/"; exactly 2, the first segment three times;   *)
(* fewer, 'Unknown', 'Unknown' and ''.                                     *)
C12_PathIdentity ==
    last.slice_id # None =>
        LET seg == PathParts(last.file)
            n == Len(seg)
        IN  FolderInfo(last.file) =
              CASE n = 5 -> PathIdentity(seg[1], seg[2],
                                         seg[2] \o "/" \o seg[3] \o "/" \o seg[4])
                [] n = 4 -> PathIdentity(seg[1], seg[2], seg[2] \o "/" \o seg[3])
                [] n = 3 -> PathIdentity(seg[1], seg[2], seg[2])
                [] n = 2 -> PathIdentity(seg[1], seg[1], seg[1])
                [] n < 2 -> PathIdentity("Unknown", "Unknown", "")

(* a file at PatientA/Brain/img1.dcm that embeds nothing *)
BarePathFile(file) == file.relative_path = BrainPath /\ file.ds = EmptyDs

(* C12: the path-derived identity is as above and, consequently, a file at *)
(* 'PatientA/Brain/img1.dcm' with no embedded identifiers lands in a study *)
(* whose patient name is 'PatientA' and a series whose body location is    *)
(* 'Brain'.                                                                *)
C12_PathDerivedIdentity ==
    /\ C12_PathIdentity
    /\ (last.slice_id \in DOMAIN slices /\ BarePathFile(last.file)) =>
            /\ LastStudy.patient_name = "PatientA"
            /\ LastSeries.series_description = "Brain"
            /\ Get(LastSeries, "body_part", "Brain") = "Brain"

(* C12, amended: the path-derived identity is as above and a file at       *)
(* 'PatientA/Brain/img1.dcm' that embeds nothing gives the study it        *)
(* creates the patient name 'PatientA' and the series it creates the body  *)
(* location 'Brain'; a study or series that exists already keeps the       *)
(* fields of its first writer.                                             *)
C12_PathDerivedIdentityOnCreation ==
    [][ /\ C12_PathIdentity'
        /\ (CreatesStudy /\ BarePathFile(last'.file)) =>
                studies'[slices'[last'.slice_id].study_id].patient_name = "PatientA"
        /\ (CreatesSeries /\ BarePathFile(last'.file)) =>
                LET se == series'[slices'[last'.slice_id].series_id]
                IN  /\ se.series_description = "Brain"
                    /\ Get(se, "body_part", "Brain") = "Brain"
      ]_vars

(* the first upload is a decoded file at PatientA/Brain/img1.dcm that      *)
(* embeds nothing                                                          *)
C12_Witness ==
    /\ nextUuid = 1
    /\ BarePathFile(last.file)
    /\ last.file.readable
    /\ LastStudy.patient_name = "PatientA"
    /\ LastSeries.body_part = "Brain"

----------------------------------------------------------------------------
(* The read operations of DicomService.  Each yields a response            *)
(* [raised, kind, value]: raised when the call ends with an exception,     *)
(* kind "none" for None, "list" for a list, "dict" for a dict, "image"     *)
(* for encoded image bytes.  The response of get_slice_image also carries  *)
(* the values its local variables held (locals).                           *)

Raised(e) == [raised |-> TRUE, kind |-> "none", value |-> e]

Returned(kind, value) == [raised |-> FALSE, kind |-> kind, value |-> value]

ReturnedNone == Returned("none", None)

(* [d[k] for k in ids if k in d] *)
Lookup(d, ids) ==
    LET present == SelectSeq(ids, LAMBDA k : k \in DOMAIN d)
    IN  [i \in 1..Len(present) |-> d[present[i]]]

(* DicomService.get_studies; the mappings of the model keep no insertion   *)
(* order, so the list is given as the set of its elements                  *)
GetStudies(idx) ==
    Returned("set", {idx.studies[k] : k \in DOMAIN idx.studies})

(* get_series_for_study without the membership test *)
GetSeriesForStudyUnguarded(idx, study_id) ==
    IF study_id \notin DOMAIN idx.studies THEN Raised("KeyError")
    ELSE Returned("list", Lookup(idx.series, Get(idx.studies[study_id], "series_ids", <<>>)))

(* DicomService.get_series_for_study *)
GetSeriesForStudy(idx, study_id) ==
    IF study_id \notin DOMAIN idx.studies THEN Returned("list", <<>>)
    ELSE Returned("list", Lookup(idx.series, Get(idx.studies[study_id], "series_ids", <<>>)))

(* get_slices_for_series that skips the first member *)
GetSlicesForSeriesSkipFirst(idx, series_id) ==
    IF series_id \notin DOMAIN idx.series THEN Returned("list", <<>>)
    ELSE Returned("list",
                  Lookup(idx.slices, Tail(Get(idx.series[series_id], "slice_ids", <<>>))))

(* DicomService.get_slices_for_series *)
GetSlicesForSeries(idx, series_id) ==
    IF series_id \notin DOMAIN idx.series THEN Returned("list", <<>>)
    ELSE Returned("list", Lookup(idx.slices, Get(idx.series[series_id], "slice_ids", <<>>)))

(* the metadata dict built from a decoded header (the tags of the model) *)
Metadata(slice_id, ds) ==
    [id      |-> slice_id,
     patient |-> [name |-> Get(ds, "PatientName", "Unknown"),
                  id   |-> Get(ds, "PatientID", "Unknown")],
     study   |-> [date        |-> Get(ds, "StudyDate", "Unknown"),
                  description |-> Get(ds, "StudyDescription", "Unknown")],
     series  |-> [number      |-> Get(ds, "SeriesNumber", "Unknown"),
                  description |-> Get(ds, "SeriesDescription", "Unknown"),
                  modality    |-> Get(ds, "Modality", "Unknown"),
                  body_part   |-> Get(ds, "BodyPartExamined", "Unknown")],
     image   |-> [rows            |-> Get(ds, "Rows", 0),
                  columns         |-> Get(ds, "Columns", 0),
                  instance_number |-> Get(ds, "InstanceNumber", 0),
                  slice_location  |-> Get(ds, "SliceLocation", 0)]]

(* DicomService.get_slice_metadata, with the upload directory dsk *)
GetSliceMetadata(idx, dsk, slice_id) ==
    IF slice_id \notin DOMAIN idx.slices THEN ReturnedNone
    ELSE LET slice_info == idx.slices[slice_id]
             file_path == Get(slice_info, "file_path", None)
         IN  IF file_path = None \/ file_path \notin DOMAIN dsk THEN
                 Returned("dict", slice_info)
             ELSE IF ~dsk[file_path].readable THEN
                 Returned("dict", Put(slice_info, "error", "dcmread failed"))
             ELSE
                 Returned("dict", Metadata(slice_id, dsk[file_path].ds))

(* an identifier that no mapping holds *)
UnknownId == "nonexistent"

(* the identifiers a client can ask for: those it has seen, of any level   *)
(* of the hierarchy, and one that was never handed out                     *)
RequestIds == DOMAIN studies \cup DOMAIN series \cup DOMAIN slices \cup {UnknownId}

(* variant: a dict response is written back to the slice it describes *)
ServeInPlace(op, arg, response) ==
    /\ call' = [op |-> op, arg |-> arg, raised |-> response.raised,
                kind |-> response.kind, value |-> response.value,
                locals |-> Get(response, "locals", EmptyDict)]
    /\ slices' = IF response.kind = "dict" /\ arg \in DOMAIN slices
                 THEN Put(slices, arg, response.value)
                 ELSE slices
    /\ UNCHANGED <<studies, series, disk, nextUuid, pc, results, last, overlaps>>
    /\ UNCHANGED aiVars

(* a read operation is served: the index and the upload directory stay    *)
(* as they are                                                             *)
Serve(op, arg, response) ==
    /\ call' = [op |-> op, arg |-> arg, raised |-> response.raised,
                kind |-> response.kind, value |-> response.value,
                locals |-> Get(response, "locals", EmptyDict)]
    /\ UNCHANGED <<studies, series, slices, disk, nextUuid, pc, results, last, overlaps>>
    /\ UNCHANGED aiVars

ServeGetStudies == Serve("get_studies", None, GetStudies(Index))

ServeGetSeriesForStudy ==
    \E study_id \in RequestIds :
        Serve("get_series_for_study", study_id, GetSeriesForStudy(Index, study_id))

ServeGetSlicesForSeries ==
    \E series_id \in RequestIds :
        Serve("get_slices_for_series", series_id, GetSlicesForSeries(Index, series_id))

ServeGetSliceMetadata ==
    \E slice_id \in RequestIds :
        Serve("get_slice_metadata", slice_id, GetSliceMetadata(Index, disk, slice_id))

(* the files uploaded between the reads, all from a folder: undecodable,   *)
(* without tags, with position tags only, with embedded identifiers only   *)
ReadFiles ==
    {f \in Files :
        /\ f.relative_path # <<>>
        /\ f.ds \in {EmptyDs, [InstanceNumber |-> 5, SliceLocation |-> 2],
                     [StudyInstanceUID |-> "1.2.840.1",
                      SeriesInstanceUID |-> "1.2.840.1.7"]}}

NextRead ==
    \/ BeginUpload("r1")
    \/ UploadFrom("r1", ReadFiles)
    \/ ServeGetStudies
    \/ ServeGetSeriesForStudy
    \/ ServeGetSlicesForSeries
    \/ ServeGetSliceMetadata

SpecRead == Init /\ [][NextRead]_vars

(* C13: whenever get_slices_for_series is served, every slice that         *)
(* save_uploaded_file has stored under the requested series appears in     *)
(* the response exactly once, with the filename that was passed to the     *)
(* call that stored it, however many insertions have followed it.          *)
C13_RoundTrip ==
    call.op = "get_slices_for_series" =>
        /\ ~call.raised
        /\ \A s \in DOMAIN slices :
            slices[s].series_id = call.arg =>
                /\ Cardinality({j \in 1..Len(call.value) : call.value[j].id = s}) = 1
                /\ \A j \in 1..Len(call.value) :
                        call.value[j].id = s =>
                            call.value[j].filename = disk[FilePath(s)].filename

(* get_slices_for_series is served for the series of the first of two      *)
(* slices of different filenames, after the second has been inserted       *)
C13_Witness ==
    /\ call.op = "get_slices_for_series"
    /\ Len(call.value) >= 2
    /\ \E i, j \in 1..Len(call.value) : call.value[i].filename # call.value[j].filename
    /\ "uuid1" \in DOMAIN slices
    /\ slices["uuid1"].series_id = call.arg

(* C14: every save_uploaded_file call stores its slice under an identifier *)
(* that the index did not hold, so two uploads of the same bytes, filename *)
(* and path give two records; and no step modifies or removes a slice      *)
(* record that existed before it.                                          *)
C14_FreshIdentifierFrozenRecords ==
    [][ /\ Saved => /\ last'.slice_id \notin DOMAIN slices
                    /\ last'.slice_id \in DOMAIN slices'
                    /\ Cardinality(DOMAIN slices') = Cardinality(DOMAIN slices) + 1
        /\ \A k \in DOMAIN slices : k \in DOMAIN slices' /\ slices'[k] = slices[k]
      ]_vars

(* the same file has been uploaded twice and is held as two records *)
C14_Witness ==
    /\ nextUuid = 2
    /\ {"uuid1", "uuid2"} \subseteq DOMAIN slices
    /\ disk[FilePath("uuid1")] = disk[FilePath("uuid2")]
    /\ slices["uuid1"].id # slices["uuid2"].id

(* the request of the latest step names an identifier that the mapping it  *)
(* looks into does not hold                                                *)
UnknownRequest(op, mapping) == call'.op = op /\ call'.arg \notin DOMAIN mapping

(* C16: get_series_for_study and get_slices_for_series, asked for an       *)
(* identifier that is not in the index, return an empty list, and          *)
(* get_slice_metadata returns None; none raises, and the three mappings    *)
(* are the same after the call.                                            *)
C16_UnknownIdentifier ==
    [][ /\ (\/ UnknownRequest("get_series_for_study", studies)
            \/ UnknownRequest("get_slices_for_series", series)) =>
                /\ ~call'.raised
                /\ call'.kind = "list"
                /\ call'.value = <<>>
                /\ <<studies, series, slices>>' = <<studies, series, slices>>
        /\ UnknownRequest("get_slice_metadata", slices) =>
                /\ ~call'.raised
                /\ call'.kind = "none"
                /\ <<studies, series, slices>>' = <<studies, series, slices>>
      ]_vars

(* get_series_for_study has been asked, on an index that holds a study,    *)
(* for an identifier that names a slice and no study                       *)
C16_Witness ==
    /\ call.op = "get_series_for_study"
    /\ call.arg \in DOMAIN slices
    /\ call.arg \notin DOMAIN studies
    /\ DOMAIN studies # {}
    /\ call.kind = "list"

----------------------------------------------------------------------------
(* DicomService.get_slice_image.                                           *)
(*                                                                         *)
(* A pixel array is a 2-D grid: a sequence of rows of integer samples.     *)
(* The float64 samples of the handler are held in halves (the integer 2x   *)
(* stands for the float x), which keeps c - w/2 exact; on integer inputs   *)
(* every float operation of the handler up to the normalisation is exact,  *)
(* and int(x / y * 255) equals (255 * x) \div y for the ranges used here.  *)
(* An Optional[float] argument is <<>> for None and <<x>> for x.  A header *)
(* window tag is the sequence of its values (one value when the tag is     *)
(* single-valued).  ds.decompress() is tolerated to fail and changes       *)
(* nothing here; the 3-D shape dispatch is not modelled.                   *)

Nothing == <<>>

Some(x) == <<x>>

Samples(a) == UNION {{a[i][j] : j \in DOMAIN a[i]} : i \in DOMAIN a}

Max(S) == CHOOSE x \in S : \A y \in S : y <= x

Min(S) == CHOOSE x \in S : \A y \in S : x <= y

(* ds.pixel_array.astype(np.float64) *)
AsFloat(a) == [i \in DOMAIN a |-> [j \in DOMAIN a[i] |-> 2 * a[i][j]]]

(* pixel_array.max() - pixel_array, for MONOCHROME1 *)
Invert(ds, a) ==
    IF Get(ds, "PhotometricInterpretation", "MONOCHROME2") = "MONOCHROME1"
    THEN [i \in DOMAIN a |-> [j \in DOMAIN a[i] |-> Max(Samples(a)) - a[i][j]]]
    ELSE a

(* pixel_array * slope + intercept *)
Rescale(ds, a) ==
    [i \in DOMAIN a |-> [j \in DOMAIN a[i] |->
        a[i][j] * Get(ds, "RescaleSlope", 1) + 2 * Get(ds, "RescaleIntercept", 0)]]

(* a clip that bounds the samples from below only *)
ClipBelowOnly(a, min_val, max_val) ==
    [i \in DOMAIN a |-> [j \in DOMAIN a[i] |->
        IF a[i][j] < min_val THEN min_val ELSE a[i][j]]]

(* np.clip(pixel_array, min_val, max_val) *)
Clip(a, min_val, max_val) ==
    [i \in DOMAIN a |-> [j \in DOMAIN a[i] |->
        IF a[i][j] < min_val
        THEN (IF min_val > max_val THEN max_val ELSE min_val)
        ELSE IF a[i][j] > max_val THEN max_val ELSE a[i][j]]]

NoWindow == [clip |-> FALSE]

(* center - width / 2 and center + width / 2 *)
Window(center, width) ==
    [clip |-> TRUE, min_val |-> 2 * center - width, max_val |-> 2 * center + width]

(* the window of the header, when it carries both tags *)
HeaderWindow(ds) ==
    IF "WindowCenter" \in DOMAIN ds /\ "WindowWidth" \in DOMAIN ds
    THEN Window(ds.WindowCenter[1], ds.WindowWidth[1])
    ELSE NoWindow

(* window selection that looks at the header first *)
SelectWindowHeaderFirst(ds, window_center, window_width) ==
    IF HeaderWindow(ds).clip THEN HeaderWindow(ds)
    ELSE IF window_center # Nothing /\ window_width # Nothing
    THEN Window(window_center[1], window_width[1])
    ELSE NoWindow

(* window selection: the arguments when both are given, else the header *)
SelectWindow(ds, window_center, window_width) ==
    IF window_center # Nothing /\ window_width # Nothing
    THEN Window(window_center[1], window_width[1])
    ELSE HeaderWindow(ds)

ApplyWindow(a, window) ==
    IF window.clip THEN Clip(a, window.min_val, window.max_val) ELSE a

(* (pixel_array - pmin) / (pmax - pmin) * 255 and astype(np.uint8) *)
Scale(a, pmin, pmax) ==
    [i \in DOMAIN a |-> [j \in DOMAIN a[i] |->
        (255 * (a[i][j] - pmin)) \div (pmax - pmin)]]

(* np.zeros_like(pixel_array) *)
ZerosLike(a) == [i \in DOMAIN a |-> [j \in DOMAIN a[i] |-> 0]]

(* normalisation that maps a constant array to white *)
NormalizeToUint8White(a) ==
    IF Max(Samples(a)) > Min(Samples(a))
    THEN Scale(a, Min(Samples(a)), Max(Samples(a)))
    ELSE [i \in DOMAIN a |-> [j \in DOMAIN a[i] |-> 255]]

(* normalisation to 0..255 and astype(np.uint8) *)
NormalizeToUint8(a) ==
    IF Max(Samples(a)) > Min(Samples(a))
    THEN Scale(a, Min(Samples(a)), Max(Samples(a)))
    ELSE ZerosLike(a)

(* the numeric steps with the stages named *)
Stages(rescaled, window) ==
    [rescaled |-> rescaled,
     window   |-> window,
     clipped  |-> ApplyWindow(rescaled, window),
     pixels   |-> NormalizeToUint8(ApplyWindow(rescaled, window))]

(* the numeric steps with the rescale ahead of the inversion *)
RenderPixelsRescaleFirst(ds, pixel_array, window_center, window_width) ==
    Stages(Invert(ds, Rescale(ds, AsFloat(pixel_array))),
           SelectWindow(ds, window_center, window_width))

(* the numeric steps: inversion, rescale, window, normalisation *)
RenderPixels(ds, pixel_array, window_center, window_width) ==
    Stages(Rescale(ds, Invert(ds, AsFloat(pixel_array))),
           SelectWindow(ds, window_center, window_width))

(* Image.fromarray(pixel_array, mode='L') and the encoding *)
Encode(pixels, format) ==
    IF format = "png"
    THEN [format |-> "PNG", mode |-> "L", pixels |-> pixels]
    ELSE [format |-> "JPEG", mode |-> "RGB", pixels |-> pixels]

(* the body of the try block, on the file read from the backing path *)
RenderFile(file, format, window_center, window_width) ==
    IF ~file.readable THEN Raised("dcmread failed")
    ELSE IF "PixelData" \notin DOMAIN file.ds THEN ReturnedNone
    ELSE IF ~file.ds.PixelData.decodes THEN Raised("pixel data cannot be decoded")
    ELSE IF Samples(file.ds.PixelData.array) = {} THEN Raised("zero-size array")
    ELSE LET locals == RenderPixels(file.ds, file.ds.PixelData.array,
                                    window_center, window_width)
         IN  [raised |-> FALSE, kind |-> "image",
              value |-> Encode(locals.pixels, format), locals |-> locals]

(* an except block that lets the exception through *)
ExceptReraise(r) == r

(* except Exception: return None *)
Except(r) == IF r.raised THEN ReturnedNone ELSE r

GetSliceImage(idx, dsk, slice_id, format, window_center, window_width) ==
    IF slice_id \notin DOMAIN idx.slices THEN ReturnedNone
    ELSE LET file_path == Get(idx.slices[slice_id], "file_path", None)
         IN  IF file_path = None \/ file_path \notin DOMAIN dsk THEN ReturnedNone
             ELSE Except(RenderFile(dsk[file_path], format, window_center, window_width))

----------------------------------------------------------------------------
(* Rendering: one file is uploaded, then images and metadata are requested *)
(* for it, and the file may disappear from the upload directory.           *)

ExampleGrid == <<<<0, 100>>, <<200, 300>>>>

ConstantGrid == <<<<7, 7>>, <<7, 7>>>>

Grids == {ExampleGrid, ConstantGrid, <<<<100, 120>>, <<150, 200>>>>}

PhotometricTags == {EmptyDs, [PhotometricInterpretation |-> "MONOCHROME1"]}

RescaleTags ==
    {EmptyDs, [RescaleSlope |-> 2], [RescaleIntercept |-> 10],
     [RescaleSlope |-> 2, RescaleIntercept |-> -50]}

WindowTags ==
    {EmptyDs,
     [WindowCenter |-> <<180>>],
     [WindowCenter |-> <<180>>, WindowWidth |-> <<60>>],
     [WindowCenter |-> <<120, 180>>, WindowWidth |-> <<80, 60>>]}

PixelData(array) == [PixelData |-> [decodes |-> TRUE, array |-> array]]

(* the example grid under every combination of tags; the other grids       *)
(* without tags and with all of them; an empty array, a payload that       *)
(* cannot be decoded, a header without payload                             *)
RenderHeaders ==
    {p @@ r @@ w @@ PixelData(ExampleGrid) :
        p \in PhotometricTags, r \in RescaleTags, w \in WindowTags}
    \cup {h @@ PixelData(g) :
            g \in Grids,
            h \in {EmptyDs,
                   [PhotometricInterpretation |-> "MONOCHROME2"],
                   [PhotometricInterpretation |-> "MONOCHROME1",
                    RescaleSlope |-> 2, RescaleIntercept |-> -50,
                    WindowCenter |-> <<180>>, WindowWidth |-> <<60>>]}}
    \cup {PixelData(<<>>),
          [PixelData |-> [decodes |-> FALSE, array |-> <<>>]],
          EmptyDs}

RenderFiles ==
    [filename : {"img1.dcm"}, relative_path : {BrainPath},
     readable : {TRUE}, ds : RenderHeaders]
    \cup
    [filename : {"img1.dcm"}, relative_path : {BrainPath},
     readable : {FALSE}, ds : {EmptyDs}]

(* the window arguments of a request *)
WindowArgs ==
    {<<Nothing, Nothing>>, <<Some(150), Nothing>>, <<Nothing, Some(100)>>,
     <<Some(150), Some(100)>>, <<Some(150), Some(101)>>, <<Some(150), Some(0)>>,
     <<Some(400), Some(50)>>}

(* format and window arguments of a request: PNG with every window, JPEG   *)
(* without window arguments                                                *)
ImageArgs ==
    {<<"png", w[1], w[2]>> : w \in WindowArgs} \cup {<<"jpeg", Nothing, Nothing>>}

UploadRenderFile == nextUuid = 0 /\ UploadFrom("r1", RenderFiles)

(* a file of the upload directory is removed from outside the program *)
DeleteUpload ==
    /\ \E file_path \in DOMAIN disk :
            disk' = [k \in DOMAIN disk \ {file_path} |-> disk[k]]
    /\ call' = NoCall
    /\ UNCHANGED <<studies, series, slices, nextUuid, pc, results, last, overlaps>>
    /\ UNCHANGED aiVars

ServeGetSliceImage ==
    \E slice_id \in RequestIds, a \in ImageArgs :
        Serve("get_slice_image",
              [slice_id |-> slice_id, format |-> a[1],
               window_center |-> a[2], window_width |-> a[3]],
              GetSliceImage(Index, disk, slice_id, a[1], a[2], a[3]))

NextRender ==
    \/ BeginUpload("r1")
    \/ UploadRenderFile
    \/ DeleteUpload
    \/ ServeGetSliceMetadata
    \/ ServeGetSliceImage

SpecRender == Init /\ [][NextRender]_vars

----------------------------------------------------------------------------
(* Vocabulary of the rendering properties *)

(* the latest step served get_slice_image *)
ImageCall == call.op = "get_slice_image"

(* the requested slice is in the index and its backing file exists *)
Backed ==
    /\ call.arg.slice_id \in DOMAIN slices
    /\ slices[call.arg.slice_id].file_path \in DOMAIN disk

(* the backing file of the requested slice and its header *)
BackingFile == disk[slices[call.arg.slice_id].file_path]

BackingDs == BackingFile.ds

(* the backing file decodes to a non-empty sample grid *)
Decodable ==
    /\ Backed
    /\ BackingFile.readable
    /\ "PixelData" \in DOMAIN BackingDs
    /\ BackingDs.PixelData.decodes
    /\ Samples(BackingDs.PixelData.array) # {}

(* the latest step served get_slice_image and it returned an image *)
Rendered == ImageCall /\ call.kind = "image"

RawGrid == BackingDs.PixelData.array

(* both window arguments were given *)
ExplicitWindow == call.arg.window_center # <<>> /\ call.arg.window_width # <<>>

(* x held in [lo, hi] *)
Clamp(x, lo, hi) == IF x < lo THEN lo ELSE IF x > hi THEN hi ELSE x

(* the samples after the window stage, and their extremes *)
Clipped == call.locals.clipped

ClippedMax == CHOOSE x \in Samples(Clipped) : \A y \in Samples(Clipped) : y <= x

ClippedMin == CHOOSE x \in Samples(Clipped) : \A y \in Samples(Clipped) : x <= y

(* the positions of the grid *)
Positions == {<<i, j>> : i \in 1..2, j \in 1..2}

(* C15: get_slice_image returns None and does not raise when the slice id  *)
(* is unknown, when the backing file is gone, when the file has no pixel   *)
(* payload and when the decoding of the payload throws.                    *)
C15_NullOnMissing ==
    (/\ ImageCall
     /\ \/ call.arg.slice_id \notin DOMAIN slices
        \/ ~Backed
        \/ Backed /\ BackingFile.readable /\ "PixelData" \notin DOMAIN BackingDs
        \/ Backed /\ BackingFile.readable /\ "PixelData" \in DOMAIN BackingDs
                  /\ ~BackingDs.PixelData.decodes)
    => (~call.raised /\ call.kind = "none")

(* get_slice_image was asked for a slice whose file is there and whose     *)
(* payload cannot be decoded                                               *)
C15_Witness ==
    /\ ImageCall
    /\ Backed
    /\ BackingFile.readable
    /\ "PixelData" \in DOMAIN BackingDs
    /\ ~BackingDs.PixelData.decodes
    /\ call.kind = "none"

(* C17: with an explicit window (c, w) every rescaled sample is clipped to *)
(* [c - w/2, c + w/2] and the output is (v - min) / (max - min) * 255 on   *)
(* the post-clip min and max, truncated to 8 bits; the grid                *)
(* [[0,100],[200,300]] with slope 1, intercept 0, c = 150, w = 100 gives   *)
(* [[0,0],[255,255]].  (Samples are in halves: 2c - w stands for c - w/2.) *)
C17_ExplicitWindow ==
    (Rendered /\ ExplicitWindow) =>
        LET c == call.arg.window_center[1]
            w == call.arg.window_width[1]
        IN  /\ \A p \in Positions :
                /\ Clipped[p[1]][p[2]] =
                       Clamp(call.locals.rescaled[p[1]][p[2]], 2 * c - w, 2 * c + w)
                /\ ClippedMax > ClippedMin =>
                       call.value.pixels[p[1]][p[2]] =
                           (255 * (Clipped[p[1]][p[2]] - ClippedMin))
                           \div (ClippedMax - ClippedMin)
                /\ call.value.pixels[p[1]][p[2]] \in 0..255
            /\ (/\ RawGrid = <<<<0, 100>>, <<200, 300>>>>
                /\ DOMAIN BackingDs \cap {"PhotometricInterpretation", "RescaleSlope",
                                          "RescaleIntercept"} = {}
                /\ c = 150 /\ w = 100)
               => call.value.pixels = <<<<0, 0>>, <<255, 255>>>>

(* the example of C17 has been rendered *)
C17_Witness ==
    /\ Rendered
    /\ ExplicitWindow
    /\ call.arg.window_center[1] = 150 /\ call.arg.window_width[1] = 100
    /\ RawGrid = <<<<0, 100>>, <<200, 300>>>>
    /\ DOMAIN BackingDs \cap {"PhotometricInterpretation", "RescaleSlope",
                              "RescaleIntercept"} = {}
    /\ call.value.pixels = <<<<0, 0>>, <<255, 255>>>>

(* the file is in the inverted grayscale convention *)
Inverted ==
    /\ "PhotometricInterpretation" \in DOMAIN BackingDs
    /\ BackingDs.PhotometricInterpretation = "MONOCHROME1"

(* C18: the steps run in the order inversion, rescale, window clip,        *)
(* normalisation: the value that is clipped and normalised is              *)
(* (M - v) * slope + intercept for an inverted-grayscale file, M the       *)
(* largest raw sample (v * slope + intercept otherwise), with slope 1 and  *)
(* intercept 0 when the header omits them; the clip acts on that value     *)
(* and the output is a non-decreasing function of the clipped value.       *)
C18_StepOrder ==
    Rendered =>
        LET slope == IF "RescaleSlope" \in DOMAIN BackingDs
                     THEN BackingDs.RescaleSlope ELSE 1
            intercept == IF "RescaleIntercept" \in DOMAIN BackingDs
                         THEN BackingDs.RescaleIntercept ELSE 0
            M == CHOOSE x \in Samples(RawGrid) : \A y \in Samples(RawGrid) : y <= x
            Value(v) == IF Inverted THEN (M - v) * slope + intercept
                        ELSE v * slope + intercept
        IN  /\ \A p \in Positions :
                /\ call.locals.rescaled[p[1]][p[2]] = 2 * Value(RawGrid[p[1]][p[2]])
                /\ Clipped[p[1]][p[2]] =
                       IF call.locals.window.clip
                       THEN Clamp(2 * Value(RawGrid[p[1]][p[2]]),
                                  call.locals.window.min_val,
                                  call.locals.window.max_val)
                       ELSE 2 * Value(RawGrid[p[1]][p[2]])
            /\ \A p, q \in Positions :
                    Clipped[p[1]][p[2]] <= Clipped[q[1]][q[2]] =>
                        call.value.pixels[p[1]][p[2]] <= call.value.pixels[q[1]][q[2]]

(* an inverted-grayscale file with an intercept and no slope has been      *)
(* rendered under a window                                                 *)
C18_Witness ==
    /\ Rendered
    /\ Inverted
    /\ "RescaleSlope" \notin DOMAIN BackingDs
    /\ "RescaleIntercept" \in DOMAIN BackingDs
    /\ call.locals.window.clip
    /\ call.locals.rescaled = <<<<620, 420>>, <<220, 20>>>>

(* C19: the window in effect is the explicit center and width of the call  *)
(* when both are given, whatever the header says; otherwise the first      *)
(* value of the header's window center and of its window width when the    *)
(* header carries both; otherwise there is none and the samples reach the  *)
(* normalisation unclipped.                                                *)
C19_WindowPrecedence ==
    Rendered =>
        IF ExplicitWindow THEN
            /\ call.locals.window.clip
            /\ call.locals.window.min_val =
                   2 * call.arg.window_center[1] - call.arg.window_width[1]
            /\ call.locals.window.max_val =
                   2 * call.arg.window_center[1] + call.arg.window_width[1]
        ELSE IF {"WindowCenter", "WindowWidth"} \subseteq DOMAIN BackingDs THEN
            /\ call.locals.window.clip
            /\ call.locals.window.min_val =
                   2 * BackingDs.WindowCenter[1] - BackingDs.WindowWidth[1]
            /\ call.locals.window.max_val =
                   2 * BackingDs.WindowCenter[1] + BackingDs.WindowWidth[1]
        ELSE
            /\ ~call.locals.window.clip
            /\ Clipped = call.locals.rescaled

(* an explicit window was given for a file whose header carries another,   *)
(* multi-valued one, and the explicit one is in effect                     *)
C19_Witness ==
    /\ Rendered
    /\ ExplicitWindow
    /\ {"WindowCenter", "WindowWidth"} \subseteq DOMAIN BackingDs
    /\ Len(BackingDs.WindowCenter) = 2
    /\ BackingDs.WindowCenter[1] # call.arg.window_center[1]
    /\ call.locals.window.min_val =
           2 * call.arg.window_center[1] - call.arg.window_width[1]

(* C20: a call on a file that decodes returns an image without raising,    *)
(* and whenever the largest post-clip sample equals the smallest (a        *)
(* constant grid, or a window that takes every sample to one value) the    *)
(* image is zero everywhere.                                               *)
C20_DegenerateRange ==
    (ImageCall /\ Decodable) =>
        /\ ~call.raised
        /\ call.kind = "image"
        /\ ClippedMax = ClippedMin =>
                \A p \in Positions : call.value.pixels[p[1]][p[2]] = 0

(* a grid that is not constant has been rendered under a window that takes *)
(* all its samples to one value                                            *)
C20_Witness ==
    /\ Rendered
    /\ Cardinality(Samples(RawGrid)) > 1
    /\ call.locals.window.clip
    /\ ClippedMax = ClippedMin
    /\ \A p \in Positions : call.value.pixels[p[1]][p[2]] = 0

----------------------------------------------------------------------------
(* The read operations side by side: uploads, removals of backing files    *)
(* and the six read operations of DicomService in any order.               *)

(* base64.b64encode(image_bytes).decode('utf-8'): the text form of bytes *)
B64Encode(image_bytes) == [base64 |-> image_bytes]

(* DicomService.get_slice_image_base64, with the upload directory dsk *)
GetSliceImageBase64(idx, dsk, slice_id, format, window_center, window_width) ==
    LET image_bytes == GetSliceImage(idx, dsk, slice_id, format,
                                     window_center, window_width)
    IN  IF image_bytes.kind = "image"
        THEN Returned("str", B64Encode(image_bytes.value))
        ELSE ReturnedNone

(* format and window arguments of a request for the encoded image *)
Base64Args ==
    {<<"png", Nothing, Nothing>>, <<"png", Some(150), Some(100)>>,
     <<"jpeg", Nothing, Nothing>>}

ServeGetSliceImageBase64 ==
    \E slice_id \in RequestIds, a \in Base64Args :
        Serve("get_slice_image_base64",
              [slice_id |-> slice_id, format |-> a[1],
               window_center |-> a[2], window_width |-> a[3]],
              GetSliceImageBase64(Index, disk, slice_id, a[1], a[2], a[3]))

(* the uploaded files: one that renders, one without pixel data, one on    *)
(* which dcmread raises                                                    *)
FrameFiles == {f \in RenderFiles : f.ds \in {PixelData(ExampleGrid), EmptyDs}}

NextFrame ==
    \/ BeginUpload("r1")
    \/ UploadFrom("r1", FrameFiles)
    \/ DeleteUpload
    \/ ServeGetStudies
    \/ ServeGetSeriesForStudy
    \/ ServeGetSlicesForSeries
    \/ ServeGetSliceMetadata
    \/ ServeGetSliceImage
    \/ ServeGetSliceImageBase64

SpecFrame == Init /\ [][NextFrame]_vars

(* the read operations of DicomService *)
ReadOps ==
    {"get_studies", "get_series_for_study", "get_slices_for_series",
     "get_slice_metadata", "get_slice_image", "get_slice_image_base64"}

(* C21: a step that serves get_studies, get_series_for_study,              *)
(* get_slices_for_series, get_slice_metadata, get_slice_image or           *)
(* get_slice_image_base64 leaves the studies, series and slices mappings,  *)
(* membership lists included, as they were, whatever it returns.           *)
C21_ReadsLeaveIndex ==
    [][call'.op \in ReadOps => UNCHANGED <<studies, series, slices>>]_vars

(* a read of each kind of outcome has been served on a populated index:    *)
(* here an encoded image                                                   *)
C21_Witness ==
    /\ call.op = "get_slice_image_base64"
    /\ call.kind = "str"
    /\ DOMAIN studies # {} /\ DOMAIN series # {} /\ DOMAIN slices # {}

----------------------------------------------------------------------------
(* C22: after every save_uploaded_file call the slice it stored names a    *)
(* study of the index whose series_ids list holds the slice's series_id,   *)
(* whether the call created the series or found it in the index.           *)
C22_SliceReachableFromStudy ==
    last.slice_id \in DOMAIN slices =>
        /\ slices[last.slice_id].study_id \in DOMAIN studies
        /\ InList(slices[last.slice_id].series_id,
                  studies[slices[last.slice_id].study_id].series_ids)

----------------------------------------------------------------------------
(* AIService (backend/services/ai_service.py).  A result of the remote     *)
(* model is identified by the number of the client.messages.create call    *)
(* that produced it, which stands for its text, its usage counts and its   *)
(* generated_at timestamp.  The remote call is synchronous, so every       *)
(* operation of the service is one step of the event loop.                 *)

(* Number of client.messages.create calls explored. *)
MaxCreated == 2

(* Longest list of slice images and largest sample_count explored. *)
MaxImages == 5

MaxSampleCount == 4

(* truth value of an Optional[str] *)
Truthy(s) == s \notin {None, ""}

Service == [client |-> client, interpretation_cache |-> interpretation_cache,
            created |-> created]

(* AIService.is_available *)
IsAvailable(svc) == svc.client # None

(* AIService.get_cached_interpretation: Nothing (None) when the series has *)
(* no entry                                                                *)
GetCachedInterpretation(svc, series_id) ==
    IF series_id \in DOMAIN svc.interpretation_cache
    THEN Some(svc.interpretation_cache[series_id])
    ELSE Nothing

(* AIService.cache_interpretation *)
CacheInterpretation(svc, series_id, result) ==
    [svc EXCEPT !.interpretation_cache = Put(@, series_id, result)]

(* AIService.clear_cache *)
ClearCache(svc, series_id) ==
    [svc EXCEPT !.interpretation_cache =
        [k \in DOMAIN @ \ {series_id} |-> @[k]]]

(* an outcome of an AIService operation: the service afterwards, the       *)
(* response, the images argument of interpret_images if it was called      *)
(* and whether client.messages.create was called                           *)
Outcome(svc, response, passed, remote) ==
    [svc |-> svc, response |-> response, passed |-> passed, remote |-> remote]

Failure(error) == Returned("dict", [success |-> FALSE, error |-> error])

(* the outcomes of client.messages.create: a message, anthropic.APIError   *)
RemoteOutcomes == {"message", "APIError"}

(* the result dict built from the n-th message (its model, usage and       *)
(* disclaimer entries are left out)                                        *)
Result(n) ==
    [success |-> TRUE, interpretation |-> n, from_cache |-> FALSE,
     generated_at |-> n]

(* AIService.interpret_images; remote is what client.messages.create does  *)
(* if it is called.  On a cache hit the stored dict itself is marked and   *)
(* returned.                                                               *)
InterpretImages(svc, images, series_id, remote) ==
    IF Truthy(series_id) /\ series_id \in DOMAIN svc.interpretation_cache THEN
        LET cached == Put(svc.interpretation_cache[series_id], "from_cache", TRUE)
        IN  Outcome(CacheInterpretation(svc, series_id, cached),
                    Returned("dict", cached), Some(images), FALSE)
    ELSE IF ~IsAvailable(svc) THEN
        Outcome(svc, Failure("AI service not configured"), Some(images), FALSE)
    ELSE IF images = <<>> THEN
        Outcome(svc, Failure("No images provided for interpretation."), Some(images), FALSE)
    ELSE LET sent == [svc EXCEPT !.created = @ + 1]
         IN  IF remote = "message" THEN
                 Outcome(IF Truthy(series_id)
                         THEN CacheInterpretation(sent, series_id, Result(sent.created))
                         ELSE sent,
                         Returned("dict", Result(sent.created)), Some(images), TRUE)
             ELSE Outcome(sent, Failure("API error"), Some(images), TRUE)

(* [int(i * (total_slices - 1) / (sample_count - 1))                       *)
(*  for i in range(sample_count)], for sample_count # 1; the quotient is   *)
(* not negative, so int() is the floor                                     *)
SampleIndices(total_slices, sample_count) ==
    [i \in 1..sample_count |-> ((i - 1) * (total_slices - 1)) \div (sample_count - 1)]

(* [{"data": img, "media_type": "image/png"} for img in sampled_images] *)
ImageDicts(sampled_images) ==
    [i \in 1..Len(sampled_images) |->
        [data |-> sampled_images[i], media_type |-> "image/png"]]

(* AIService.interpret_series *)
InterpretSeries(svc, slice_images, sample_count, series_id, refresh, remote) ==
    LET cleared == IF refresh /\ Truthy(series_id)
                   THEN ClearCache(svc, series_id) ELSE svc
        total_slices == Len(slice_images)
    IN  IF ~refresh /\ Truthy(series_id)
           /\ series_id \in DOMAIN cleared.interpretation_cache THEN
            Outcome(cleared,
                    Returned("dict", Put(cleared.interpretation_cache[series_id],
                                         "from_cache", TRUE)),
                    Nothing, FALSE)
        ELSE IF slice_images = <<>> THEN
            Outcome(cleared, Failure("No images provided for interpretation."), Nothing, FALSE)
        ELSE IF total_slices <= sample_count THEN
            InterpretImages(cleared, ImageDicts(slice_images), series_id, remote)
        ELSE IF sample_count = 1 THEN
            Outcome(cleared, Raised("ZeroDivisionError"), Nothing, FALSE)
        ELSE
            InterpretImages(cleared,
                ImageDicts([i \in 1..sample_count |->
                    slice_images[SampleIndices(total_slices, sample_count)[i] + 1]]),
                series_id, remote)

(* an operation of AIService is served; the response is kept with the     *)
(* images handed on, whether the remote model was called and the cache as  *)
(* it was before the operation                                             *)
ServeAI(op, arg, outcome) ==
    /\ outcome.svc.created <= MaxCreated
    /\ client' = outcome.svc.client
    /\ interpretation_cache' = outcome.svc.interpretation_cache
    /\ created' = outcome.svc.created
    /\ call' = [op |-> op, arg |-> arg, raised |-> outcome.response.raised,
                kind |-> outcome.response.kind, value |-> outcome.response.value,
                locals |-> [passed |-> outcome.passed, remote |-> outcome.remote,
                            before |-> interpretation_cache]]
    /\ UNCHANGED <<studies, series, slices, disk, nextUuid, pc, results, last, overlaps>>

(* a list of n slice images *)
SliceImages(n) == [i \in 1..n |-> "image" \o ToString(i)]

(* the series identifiers passed to the service: none, one series *)
SeriesIds == {None, "series_Brain"}

ServeInterpretSeries ==
    \E n \in 0..MaxImages, sample_count \in 0..MaxSampleCount,
       series_id \in SeriesIds, refresh \in BOOLEAN, remote \in RemoteOutcomes :
        ServeAI("interpret_series",
                [slice_images |-> SliceImages(n), sample_count |-> sample_count,
                 series_id |-> series_id, refresh |-> refresh],
                InterpretSeries(Service, SliceImages(n), sample_count,
                                series_id, refresh, remote))

ServeInterpretImages ==
    \E n \in 0..2, series_id \in SeriesIds, remote \in RemoteOutcomes :
        ServeAI("interpret_images",
                [images |-> ImageDicts(SliceImages(n)), series_id |-> series_id],
                InterpretImages(Service, ImageDicts(SliceImages(n)),
                                series_id, remote))

ServeClearCache ==
    \E series_id \in SeriesIds \ {None} :
        ServeAI("clear_cache", [series_id |-> series_id],
                Outcome(ClearCache(Service, series_id), ReturnedNone, Nothing, FALSE))

(* the service is constructed with or without an API key *)
InitService == InitDicom /\ \E api_key \in {None, "sk-key"} : InitAIService(api_key)

NextService ==
    \/ ServeInterpretSeries
    \/ ServeInterpretImages
    \/ ServeClearCache

SpecService == InitService /\ [][NextService]_vars

(* the latest step served AIService.interpret_series and the call did not  *)
(* end at its cache check                                                  *)
SeriesCall ==
    /\ call.op = "interpret_series"
    /\ call.raised \/ ~Get(call.value, "from_cache", FALSE)

(* C23: whenever interpret_series is served with sample_count >= 1 and a   *)
(* non-empty list of N slice images, it does not raise and hands           *)
(* interpret_images exactly min(sample_count, N) images, taken at          *)
(* strictly increasing positions of the list that start at the first       *)
(* slice and, when more than one image is sampled, end at the last.        *)
C23_SamplingInBounds ==
    (/\ SeriesCall
     /\ call.arg.sample_count >= 1
     /\ call.arg.slice_images # <<>>)
    => /\ ~call.raised
       /\ call.locals.passed # Nothing
       /\ LET images == call.locals.passed[1]
              N == Len(call.arg.slice_images)
          IN  /\ Len(images) = Min({call.arg.sample_count, N})
              /\ \E indices \in [1..Len(images) -> 1..N] :
                    /\ \A i \in 1..Len(images) :
                          images[i].data = call.arg.slice_images[indices[i]]
                    /\ \A i \in 1..(Len(images) - 1) : indices[i] < indices[i + 1]
                    /\ indices[1] = 1
                    /\ Len(images) > 1 => indices[Len(images)] = N

(* C24: every entry of interpretation_cache is a successful result whose   *)
(* stored from_cache flag is false.                                        *)
C24_CacheEntriesPristine ==
    \A series_id \in DOMAIN interpretation_cache :
        /\ interpretation_cache[series_id].success
        /\ ~interpretation_cache[series_id].from_cache

----------------------------------------------------------------------------
(* GET /interpret/series/{series_id} (backend/routers/interpret.py):       *)
(* uploads, removals of backing files and interpretation requests, with    *)
(* direct interpret_images and clear_cache calls on the service between    *)
(* them.                                                                   *)

(* the error responses of the handler *)
RouterFailure(error) ==
    Returned("dict", [success |-> FALSE, error |-> error, from_cache |-> FALSE])

(* [img for s in slices if (img := get_slice_image_base64(s["id"]))] *)
LoadSliceImages(idx, dsk, slice_list) ==
    LET loaded == SelectSeq([i \in 1..Len(slice_list) |->
                                GetSliceImageBase64(idx, dsk, slice_list[i].id,
                                                    "png", Nothing, Nothing)],
                            LAMBDA r : r.kind = "str")
    IN  [i \in 1..Len(loaded) |-> loaded[i].value]

(* variant of the handler that looks the cache up whatever refresh says *)
GetSeriesInterpretationCacheFirst(idx, dsk, svc, series_id, refresh, remote) ==
    LET cached == GetCachedInterpretation(svc, series_id)
        slice_list == GetSlicesForSeries(idx, series_id).value
        slice_images == LoadSliceImages(idx, dsk, slice_list)
    IN  IF cached # Nothing THEN
            Outcome(svc, Returned("dict", Put(cached[1], "from_cache", TRUE)),
                    Nothing, FALSE)
        ELSE IF ~IsAvailable(svc) THEN
            Outcome(svc, RouterFailure("AI service not available"), Nothing, FALSE)
        ELSE IF slice_list = <<>> THEN
            Outcome(svc, RouterFailure("No slices found for series"), Nothing, FALSE)
        ELSE IF slice_images = <<>> THEN
            Outcome(svc, RouterFailure("Could not load images"), Nothing, FALSE)
        ELSE InterpretSeries(svc, slice_images, 5, series_id, refresh, remote)

(* get_series_interpretation *)
GetSeriesInterpretation(idx, dsk, svc, series_id, refresh, remote) ==
    LET cached == GetCachedInterpretation(svc, series_id)
        slice_list == GetSlicesForSeries(idx, series_id).value
        slice_images == LoadSliceImages(idx, dsk, slice_list)
    IN  IF ~refresh /\ cached # Nothing THEN
            Outcome(svc, Returned("dict", Put(cached[1], "from_cache", TRUE)),
                    Nothing, FALSE)
        ELSE IF ~IsAvailable(svc) THEN
            Outcome(svc, RouterFailure("AI service not available"), Nothing, FALSE)
        ELSE IF slice_list = <<>> THEN
            Outcome(svc, RouterFailure("No slices found for series"), Nothing, FALSE)
        ELSE IF slice_images = <<>> THEN
            Outcome(svc, RouterFailure("Could not load images"), Nothing, FALSE)
        ELSE InterpretSeries(svc, slice_images, 5, series_id, refresh, remote)

ServeGetSeriesInterpretation ==
    \E series_id \in DOMAIN series \cup {UnknownId}, refresh \in BOOLEAN,
       remote \in RemoteOutcomes :
        ServeAI("get_series_interpretation",
                [series_id |-> series_id, refresh |-> refresh],
                GetSeriesInterpretation(Index, disk, Service, series_id,
                                        refresh, remote))

NextInterpret ==
    \/ BeginUpload("r1")
    \/ UploadFrom("r1", FrameFiles)
    \/ DeleteUpload
    \/ ServeGetSeriesInterpretation
    \/ ServeInterpretImages
    \/ ServeClearCache

SpecInterpret == InitService /\ [][NextInterpret]_vars

(* C25: a step that serves GET /interpret/series/{id} with refresh=true    *)
(* responds with success = false or with a result of a model call made in  *)
(* this step, other than the entry the cache held before, which is then    *)
(* the cache entry of the series; with refresh=false and a cache entry     *)
(* for the series it responds with that entry marked from_cache = true     *)
(* and the remote model is not called.                                     *)
C25_RefreshBypassesCache ==
    [][call'.op = "get_series_interpretation" =>
        LET series_id == call'.arg.series_id
            response == call'.value
        IN  /\ call'.arg.refresh =>
                \/ ~response.success
                \/ /\ created' = created + 1
                   /\ response.generated_at = created'
                   /\ ~response.from_cache
                   /\ series_id \in DOMAIN interpretation_cache =>
                        response # interpretation_cache[series_id]
                   /\ series_id \in DOMAIN interpretation_cache'
                   /\ interpretation_cache'[series_id] = response
            /\ (~call'.arg.refresh /\ series_id \in DOMAIN interpretation_cache) =>
                /\ response = Put(interpretation_cache[series_id], "from_cache", TRUE)
                /\ response.from_cache
                /\ created' = created
                /\ ~call'.locals.remote]_vars

(* a refresh request for a series that had a cache entry was answered      *)
(* with a new result                                                       *)
C25_Witness ==
    /\ call.op = "get_series_interpretation"
    /\ call.arg.refresh
    /\ call.arg.series_id \in DOMAIN call.locals.before
    /\ call.value.success
    /\ call.value.generated_at > call.locals.before[call.arg.series_id].generated_at

====
